---- MODULE Spec2Model ----
(***************************************************************************)
(* Model of the crawl orchestration engine of web-crawler-nodejs:          *)
(* ParallelWebCrawler (coordinator), CrawlerWorker (executor), the URL     *)
(* helpers and the ratio calculator.                                       *)
(***************************************************************************)
EXTENDS Integers, Sequences, FiniteSets, TLC

(***************************************************************************)
(* Bounds of the model.                                                    *)
(***************************************************************************)
MaxDepthBound == 2      \* options.maxDepth ranges over 0..MaxDepthBound
MaxCores == 2           \* cpus().length ranges over 1..MaxCores
MaxFrontier == 10       \* frontier lengths tried on distributeUrls alone
MaxPool == 4            \* worker counts tried on distributeUrls alone

(***************************************************************************)
(* URL strings.  A URL string is modelled by what `new URL(...)` makes of  *)
(* it: its protocol, its hostname and its serialised href.  "http://s" is  *)
(* the root as a user types it; its href carries the trailing slash.       *)
(***************************************************************************)
UrlTable ==
  [u \in {"http://s", "http://s/", "http://s/a", "http://s/b", "http://s/c", "http://x/",
          "https://s/", "http://w.s/", "mailto:m", "http://s/f.pdf"} |->
     CASE u = "http://s"   -> [protocol |-> "http:", hostname |-> "s", href |-> "http://s/"]
       [] u = "http://s/f.pdf" -> [protocol |-> "http:", hostname |-> "s", href |-> "http://s/f.pdf"]
       [] u = "https://s/" -> [protocol |-> "https:", hostname |-> "s", href |-> "https://s/"]
       [] u = "http://w.s/" -> [protocol |-> "http:", hostname |-> "w.s", href |-> "http://w.s/"]
       [] u = "mailto:m"   -> [protocol |-> "mailto:", hostname |-> "", href |-> "mailto:m"]
       [] u = "http://s/"  -> [protocol |-> "http:", hostname |-> "s", href |-> "http://s/"]
       [] u = "http://s/a" -> [protocol |-> "http:", hostname |-> "s", href |-> "http://s/a"]
       [] u = "http://s/b" -> [protocol |-> "http:", hostname |-> "s", href |-> "http://s/b"]
       [] u = "http://s/c" -> [protocol |-> "http:", hostname |-> "s", href |-> "http://s/c"]
       [] u = "http://x/"  -> [protocol |-> "http:", hostname |-> "x", href |-> "http://x/"]]

R == "http://s/"
A == "http://s/a"
B == "http://s/b"
C == "http://s/c"
X == "http://x/"

\* The hrefs extractLinks emits on the site crawled, which are also its pages.
Hrefs == {R, A, B, C, X}

\* Strings that are no URL on their own: resolved against a base they give
\* the base's scheme and host with the path listed here; the empty string
\* gives the base itself.
RelativeRefs ==
  [u \in {"", "/a", "page", "invalid-url-that-will-fail"} |->
     CASE u = ""     -> "/"
       [] u = "/a"   -> "/a"
       [] u = "page" -> "/page"
       [] u = "invalid-url-that-will-fail" -> "/invalid-url-that-will-fail"]

\* A string that is no URL on its own, used where an absolute URL is expected.
NotAUrl == "invalid-url-that-will-fail"

\* A string that `new URL` rejects with any base (a special scheme without host).
Malformed == "http://"

\* The root URL strings the crawler is constructed with.
RootUrls == {"http://s", "http://s/"}

Invalid == [protocol |-> "", hostname |-> "", href |-> ""]

\* new URL(url, base): throws (Invalid) when the base does not parse on its
\* own, or the url parses neither on its own nor as a reference to the base.
NewURL(url, base) ==
  IF base \notin DOMAIN UrlTable
  THEN Invalid
  ELSE IF url \in DOMAIN UrlTable
       THEN UrlTable[url]
       ELSE IF url \in DOMAIN RelativeRefs /\ UrlTable[base].hostname # ""
            THEN [protocol |-> UrlTable[base].protocol,
                  hostname |-> UrlTable[base].hostname,
                  href |-> IF url = ""
                           THEN UrlTable[base].href
                           ELSE UrlTable[base].protocol \o "//" \o UrlTable[base].hostname
                                  \o RelativeRefs[url]]
            ELSE Invalid

isValidUrl(url) == url \in DOMAIN UrlTable

\* Variant: only the hostnames are compared.
isSameDomainHostOnly(u1, u2, base) ==
  LET domain1 == NewURL(u1, base)
      domain2 == NewURL(u2, base)
  IN  IF domain1 = Invalid \/ domain2 = Invalid
      THEN FALSE
      ELSE domain1.hostname = domain2.hostname

\* Variant: a URL that does not parse compares like any other.
isSameDomainFailOpen(u1, u2, base) ==
  LET domain1 == NewURL(u1, base)
      domain2 == NewURL(u2, base)
  IN  domain1.protocol = domain2.protocol /\ domain1.hostname = domain2.hostname

\* Variant: only the protocols are compared.
isSameDomainProtocolOnly(u1, u2, base) ==
  LET domain1 == NewURL(u1, base)
      domain2 == NewURL(u2, base)
  IN  IF domain1 = Invalid \/ domain2 = Invalid
      THEN FALSE
      ELSE domain1.protocol = domain2.protocol

isSameDomain(u1, u2, base) ==
  LET domain1 == NewURL(u1, base)
      domain2 == NewURL(u2, base)
  IN  IF domain1 = Invalid \/ domain2 = Invalid
      THEN FALSE
      ELSE <<domain1.protocol, domain1.hostname>> = <<domain2.protocol, domain2.hostname>>

(***************************************************************************)
(* The site: what fetchPage followed by extractLinks gives for each page.  *)
(* Null is a failed fetch (bad status, non-HTML, network error, timeout,   *)
(* empty body); otherwise the sequence of absolute hrefs of the page.      *)
(***************************************************************************)
Null == [ok |-> FALSE, links |-> <<>>]

LinkLists == { <<>>, <<A, B>>, <<C, X, C>>, <<R, C>>, <<B, A, C>> }

PageOutcomes == {[ok |-> TRUE, links |-> l] : l \in LinkLists} \cup {Null}

\* The page of the other host is never the root; one body is enough for it.
Sites == {s \in [Hrefs -> PageOutcomes] : s[X] = [ok |-> TRUE, links |-> <<R, C>>]}

Range(s) == {s[i] : i \in 1..Len(s)}

\* Variant: the links are compared with the root instead of the page.
calculateRatioOfRoot(links, pageUrl, rootUrl) ==
  IF Len(links) = 0
  THEN [num |-> 0, den |-> 1]
  ELSE [num |-> Len(SelectSeq(links, LAMBDA link : isSameDomain(link, rootUrl, rootUrl))),
        den |-> Len(links)]

\* calculateRatio: sameDomainCount / links.length, kept as a fraction; 0 for no links.
calculateRatio(links, pageUrl, rootUrl) ==
  IF Len(links) = 0
  THEN [num |-> 0, den |-> 1]
  ELSE [num |-> Len(SelectSeq(links, LAMBDA link : isSameDomain(link, pageUrl, rootUrl))),
        den |-> Len(links)]

(***************************************************************************)
(* State.                                                                  *)
(***************************************************************************)
VARIABLES
  site,         \* the web site crawled (environment, fixed during a run)
  rootUrl,      \* ParallelWebCrawler.rootUrl
  maxDepth,     \* ParallelWebCrawler.maxDepth
  maxWorkers,   \* ParallelWebCrawler.maxWorkers
  visited,      \* ParallelWebCrawler.visited
  results,      \* ParallelWebCrawler.results (the accumulator)
  currentUrls,  \* local currentUrls of crawl(): the frontier
  pc,           \* position of crawl(): "idle", "await", "done"
  round,        \* number of rounds dispatched so far
  workers,      \* every Worker spawned so far, with its promise; threw records
                \* whether the try block of its processUrls threw, fetched the
                \* entries of its slice for which it called fetchPage
  batchSize,    \* WebCrawler.batchSize
  queue,        \* local queue of WebCrawler.crawl()
  batch,        \* the batch of WebCrawler.crawl() whose fetches are in flight
  url1,         \* first argument of an isSameDomain call
  url2,         \* second argument of an isSameDomain call
  baseUrl,      \* third argument of an isSameDomain call
  answer,       \* what the isSameDomain calls returned
  args,         \* the arguments of a call of one of the other functions on its own
  ret           \* what that call returned

\* The state of the single-threaded crawler and of a lone isSameDomain call.
singleVars == <<batchSize, queue, batch>>
urlVars == <<url1, url2, baseUrl, answer>>
callVars == <<args, ret>>
crawlVars == <<site, rootUrl, maxDepth, maxWorkers, visited, results, currentUrls, round, workers>>

vars == <<site, rootUrl, maxDepth, maxWorkers, visited, results, currentUrls, pc, round, workers,
          singleVars, urlVars, callVars>>

NoSingle == batchSize = 0 /\ queue = <<>> /\ batch = <<>>
NoUrlCall == url1 = "" /\ url2 = "" /\ baseUrl = "" /\ answer = <<>>
NoCall == args = <<>> /\ ret = <<>>

Min(a, b) == IF a < b THEN a ELSE b
Max(a, b) == IF a > b THEN a ELSE b

\* Math.min(maxWorkers || Math.max(1, cpuCores - 1), cpuCores); 0 stands for "not given".
getOptimalWorkerCount(optMaxWorkers, cpuCores) ==
  Min(IF optMaxWorkers # 0 THEN optMaxWorkers ELSE Max(1, cpuCores - 1), cpuCores)

(***************************************************************************)
(* Work distributor.                                                       *)
(***************************************************************************)
\* Variant: the slice length is rounded down.
FloorDiv(len, count) == len \div count

\* Variant: the slice length is one more than the rounded-down quotient.
FloorDivPlusOne(len, count) == (len \div count) + 1

\* Math.ceil(len / count) for count >= 1
CeilDiv(len, count) == (len + count - 1) \div count

\* urls.slice(startIndex, endIndex), 0-based, end exclusive
Slice(urls, startIndex, endIndex) == SubSeq(urls, startIndex + 1, endIndex)

RECURSIVE DistributeLoop(_, _, _, _, _, _)
DistributeLoop(urls, count, urlsPerWorker, root, depthLimit, i) ==
  IF ~(i < count /\ i * urlsPerWorker < Len(urls))
  THEN <<>>
  ELSE LET startIndex == i * urlsPerWorker
           endIndex == Min(startIndex + urlsPerWorker, Len(urls))
           workerUrls == Slice(urls, startIndex, endIndex)
           rest == DistributeLoop(urls, count, urlsPerWorker, root, depthLimit, i + 1)
       IN  IF Len(workerUrls) > 0
           THEN <<[id |-> i, urls |-> workerUrls, rootUrl |-> root, maxDepth |-> depthLimit]>> \o rest
           ELSE rest

distributeUrls(urls, count, root, depthLimit) ==
  DistributeLoop(urls, count, CeilDiv(Len(urls), count), root, depthLimit, 0)

(***************************************************************************)
(* Executor: CrawlerWorker.                                                *)
(***************************************************************************)
\* fetchPage then extractLinks: the page outcome of the site, Null for a bad URL.
fetchPage(s, url) ==
  IF isValidUrl(url) /\ UrlTable[url].href \in DOMAIN s THEN s[UrlTable[url].href] ELSE Null

\* CrawlerWorker.visited after the synchronous prefix of the first n processPage calls.
RECURSIVE WorkerVisited(_, _)
WorkerVisited(task, n) ==
  IF n = 0
  THEN {}
  ELSE LET prev == WorkerVisited(task, n - 1)
           e == task.urls[n]
       IN  IF e.url \in prev \/ e.depth > task.maxDepth THEN prev ELSE prev \cup {e.url}

\* Variant: entries beyond maxDepth are fetched too.
FetchedAnyDepth(task) ==
  {n \in 1..Len(task.urls) : task.urls[n].url \notin WorkerVisited(task, n - 1)}

\* The entries that pass the guard of processPage and reach fetchPage.
Fetched(task) ==
  {n \in 1..Len(task.urls) :
      /\ task.urls[n].url \notin WorkerVisited(task, n - 1)
      /\ task.urls[n].depth <= task.maxDepth}

\* Variant: a link inherits the depth of the page it was found on.
ChildDepthSame(depth) == depth

\* The depth recorded for a link found on a page of the given depth.
ChildDepth(depth) == depth + 1

\* Variant: links are collected on pages of depth maxDepth too.
PageNewUrlsInclusive(task, links, depth, wvisited) ==
  IF depth <= task.maxDepth
  THEN LET kept == SelectSeq(links, LAMBDA link :
                      link \notin wvisited /\ isSameDomain(link, task.rootUrl, task.rootUrl))
       IN  [k \in 1..Len(kept) |-> [url |-> kept[k], depth |-> depth + 1]]
  ELSE <<>>

\* The discovered links one page adds to CrawlerWorker.newUrls.
PageNewUrls(task, links, depth, wvisited) ==
  IF depth < task.maxDepth
  THEN LET kept == SelectSeq(links, LAMBDA link :
                      link \notin wvisited /\ isSameDomain(link, task.rootUrl, task.rootUrl))
       IN  [k \in 1..Len(kept) |-> [url |-> kept[k], depth |-> ChildDepth(depth)]]
  ELSE <<>>

\* What processPage adds to the worker's results and newUrls after its fetch returned.
processPage(s, task, n) ==
  LET e == task.urls[n]
      html == fetchPage(s, e.url)
  IN  IF n \notin Fetched(task) \/ ~html.ok
      THEN [results |-> <<>>, newUrls |-> <<>>]
      ELSE [results |-> <<[url |-> e.url, depth |-> e.depth,
                           ratio |-> calculateRatio(html.links, e.url, task.rootUrl)]>>,
            newUrls |-> PageNewUrls(task, html.links, e.depth,
                                    WorkerVisited(task, Len(task.urls)))]

\* The orders in which the fetches of one task may complete.
Orders(n) == {o \in [1..n -> 1..n] : \A i, j \in 1..n : o[i] = o[j] => i = j}

RECURSIVE ProcessInOrder(_, _, _, _)
ProcessInOrder(s, task, ord, k) ==
  IF k = 0
  THEN [results |-> <<>>, newUrls |-> <<>>]
  ELSE LET before == ProcessInOrder(s, task, ord, k - 1)
           page == processPage(s, task, ord[k])
       IN  [results |-> before.results \o page.results,
            newUrls |-> before.newUrls \o page.newUrls]

\* Variant: one entry whose fetch fails fails the whole task.
processUrlsAllOrNothing(s, task, ord, failed) ==
  LET out == ProcessInOrder(s, task, ord, Len(task.urls))
      bad == \E n \in Fetched(task) : ~fetchPage(s, task.urls[n].url).ok
  IN  [taskId |-> task.id,
       results |-> IF bad THEN <<>> ELSE out.results,
       newUrls |-> IF bad THEN <<>> ELSE out.newUrls,
       error |-> failed \/ bad]

\* processUrls: the WorkerResult posted to the coordinator.
processUrls(s, task, ord, failed) ==
  LET out == ProcessInOrder(s, task, ord, Len(task.urls))
  IN  [taskId |-> task.id, results |-> out.results, newUrls |-> out.newUrls, error |-> failed]

(***************************************************************************)
(* Coordinator: ParallelWebCrawler.                                        *)
(***************************************************************************)
\* Variant: every same-domain link is let in, visited or not.
IsNewUrlNoVisited(vis, root, url) == isSameDomain(url, root, root)

\* The test that lets a discovered link into the next frontier.
IsNewUrl(vis, root, url) == url \notin vis /\ isSameDomain(url, root, root)

\* Variant: visited is replaced by the link let in.
MarkVisitedReplace(vis, url) == {url}

\* Variant: the link is let in without being recorded as visited.
MarkVisitedNoAdd(vis, url) == vis

\* The visited set after a link was let into the frontier.
MarkVisited(vis, url) == vis \cup {url}

\* The inner loop of processWorkerResults over the first k links of one WorkerResult.
RECURSIVE CollectNewUrls(_, _, _, _)
CollectNewUrls(links, k, acc, root) ==
  IF k = 0
  THEN acc
  ELSE LET before == CollectNewUrls(links, k - 1, acc, root)
           urlData == links[k]
       IN  IF IsNewUrl(before.visited, root, urlData.url)
           THEN [before EXCEPT !.visited = MarkVisited(@, urlData.url),
                               !.newUrls = Append(@, urlData)]
           ELSE before

\* Variant: a WorkerResult with an error field is merged like any other.
SkipsNothing(workerResult) == FALSE

\* Whether processWorkerResults skips a WorkerResult.
SkipsResult(workerResult) == workerResult.error

\* processWorkerResults over the first k WorkerResults, in task order.
RECURSIVE processWorkerResults(_, _, _, _)
processWorkerResults(workerResults, k, acc, root) ==
  IF k = 0
  THEN acc
  ELSE LET before == processWorkerResults(workerResults, k - 1, acc, root)
           workerResult == workerResults[k]
       IN  IF SkipsResult(workerResult)
           THEN before
           ELSE CollectNewUrls(workerResult.newUrls, Len(workerResult.newUrls),
                               [before EXCEPT !.results = @ \o workerResult.results],
                               root)

\* The workers (indices into workers) spawned for the round in progress.
RoundWorkers(ws, k) == {i \in 1..Len(ws) : ws[i].round = k}

\* A Worker just constructed by executeWorkerTasks, with its pending promise.
NewWorker(task, k) ==
  [round |-> k, task |-> task, thread |-> "running", promise |-> "pending", threw |-> FALSE,
   fetched |-> {},
   result |-> [taskId |-> task.id, results |-> <<>>, newUrls |-> <<>>, error |-> FALSE]]

\* One pass of the while loop of crawl() up to its await or its return.
LoopIteration(frontier) ==
  LET tasks == distributeUrls(frontier, maxWorkers, rootUrl, maxDepth)
  IN  IF Len(frontier) > 0 /\ Len(tasks) > 0
      THEN /\ workers' = workers \o [t \in 1..Len(tasks) |-> NewWorker(tasks[t], round + 1)]
           /\ round' = round + 1
           /\ pc' = "await"
      ELSE /\ pc' = "done"
           /\ UNCHANGED <<workers, round>>

\* crawl() is called: seed the frontier and visited, enter the loop.
Crawl ==
  /\ pc = "idle"
  /\ currentUrls' = <<[url |-> rootUrl, depth |-> 0]>>
  /\ visited' = visited \cup {rootUrl}
  /\ LoopIteration(currentUrls')
  /\ UNCHANGED <<singleVars, urlVars, callVars, site, rootUrl, maxDepth, maxWorkers, results>>

\* Variant: the worker also appends its page results to the shared accumulator.
WorkerMessageShared(i) ==
  /\ i \in 1..Len(workers)
  /\ workers[i].thread = "running"
  /\ \E ord \in Orders(Len(workers[i].task.urls)), failed \in BOOLEAN :
        /\ workers' = [workers EXCEPT ![i].thread = "terminated",
                                      ![i].promise = "resolved",
                                      ![i].threw = failed,
                                      ![i].fetched = Fetched(workers[i].task),
                                      ![i].result = processUrls(site, workers[i].task, ord, failed)]
        /\ results' = results \o processUrls(site, workers[i].task, ord, failed).results
  /\ UNCHANGED <<singleVars, urlVars, callVars, site, rootUrl, maxDepth, maxWorkers, visited, currentUrls, pc, round>>

\* worker.on("message"): the worker posted its WorkerResult; terminate and resolve.
WorkerMessage(i) ==
  /\ i \in 1..Len(workers)
  /\ workers[i].thread = "running"
  /\ \E ord \in Orders(Len(workers[i].task.urls)), failed \in BOOLEAN :
        workers' = [workers EXCEPT ![i].thread = "terminated",
                                   ![i].promise = "resolved",
                                   ![i].threw = failed,
                                   ![i].fetched = Fetched(workers[i].task),
                                   ![i].result = processUrls(site, workers[i].task, ord, failed)]
  /\ UNCHANGED <<singleVars, urlVars, callVars, site, rootUrl, maxDepth, maxWorkers, visited, results, currentUrls, pc, round>>

\* worker.on("error"): the worker threw; terminate and reject.
WorkerError(i) ==
  /\ i \in 1..Len(workers)
  /\ workers[i].thread = "running"
  /\ workers' = [workers EXCEPT ![i].thread = "terminated", ![i].promise = "rejected"]
  /\ UNCHANGED <<singleVars, urlVars, callVars, site, rootUrl, maxDepth, maxWorkers, visited, results, currentUrls, pc, round>>

\* worker.on("exit") of a worker that posted nothing: reject unless the code is 0.
WorkerExit(i) ==
  /\ i \in 1..Len(workers)
  /\ workers[i].thread = "running"
  /\ \E code \in {0, 1} :
        workers' = [workers EXCEPT ![i].thread = "exited",
                                   ![i].promise = IF code # 0 THEN "rejected" ELSE @]
  /\ UNCHANGED <<singleVars, urlVars, callVars, site, rootUrl, maxDepth, maxWorkers, visited, results, currentUrls, pc, round>>

\* Variant: the await returns as soon as one promise of the round is fulfilled.
AnyFulfilled(ws, k) == \E i \in RoundWorkers(ws, k) : ws[i].promise = "resolved"

\* Promise.all is fulfilled once every promise of the round is.
AllFulfilled(ws, k) == \A i \in RoundWorkers(ws, k) : ws[i].promise = "resolved"

\* Promise.all is rejected as soon as one promise of the round is.
AnyRejected(ws, k) == \E i \in RoundWorkers(ws, k) : ws[i].promise = "rejected"

\* The WorkerResults of the round, in task order, as Promise.all returns them.
RoundResults(ws, k) ==
  LET first == CHOOSE i \in RoundWorkers(ws, k) : \A j \in RoundWorkers(ws, k) : i <= j
  IN  [n \in 1..Cardinality(RoundWorkers(ws, k)) |-> ws[first + n - 1].result]

\* The await of crawl() returns: merge the round, then go round the loop again.
RoundResolved ==
  /\ pc = "await"
  /\ AllFulfilled(workers, round)
  /\ LET workerResults == RoundResults(workers, round)
         merged == processWorkerResults(workerResults, Len(workerResults),
                      [results |-> results, visited |-> visited, newUrls |-> <<>>], rootUrl)
     IN  /\ results' = merged.results
         /\ visited' = merged.visited
         /\ currentUrls' = merged.newUrls
         /\ LoopIteration(merged.newUrls)
  /\ UNCHANGED <<singleVars, urlVars, callVars, site, rootUrl, maxDepth, maxWorkers>>

\* The await of crawl() throws: log, leave the loop and return the results.
RoundRejected ==
  /\ pc = "await"
  /\ AnyRejected(workers, round)
  /\ pc' = "done"
  /\ UNCHANGED <<singleVars, urlVars, callVars, site, rootUrl, maxDepth, maxWorkers, visited, results, currentUrls, round, workers>>

\* The worker counts the constructor can compute.
WorkerCounts ==
  {getOptimalWorkerCount(m, c) : m \in 0..MaxCores, c \in 1..MaxCores}

Init ==
  /\ site \in Sites
  /\ rootUrl \in RootUrls
  /\ maxDepth \in 0..MaxDepthBound
  /\ maxWorkers \in WorkerCounts
  /\ visited = {}
  /\ results = <<>>
  /\ currentUrls = <<>>
  /\ pc = "idle"
  /\ round = 0
  /\ workers = <<>>
  /\ NoSingle /\ NoUrlCall /\ NoCall

Next ==
  \/ Crawl
  \/ \E i \in 1..Len(workers) : WorkerMessage(i)
  \/ \E i \in 1..Len(workers) : WorkerError(i)
  \/ \E i \in 1..Len(workers) : WorkerExit(i)
  \/ RoundResolved
  \/ RoundRejected

Spec == Init /\ [][Next]_vars

(***************************************************************************)
(* Properties.                                                             *)
(***************************************************************************)
ResultUrls == {results[i].url : i \in 1..Len(results)}

\* The positions <<worker, entry>> of every frontier entry dispatched so far.
Dispatched ==
  UNION {{<<i, n>> : n \in 1..Len(workers[i].task.urls)} : i \in 1..Len(workers)}

EntryAt(p) == workers[p[1]].task.urls[p[2]]

\* The links a worker reported, once its promise is resolved.
Reported(i) ==
  IF workers[i].promise = "resolved"
  THEN {workers[i].result.newUrls[k].url : k \in 1..Len(workers[i].result.newUrls)}
  ELSE {}

\* C1: no URL string occurs in more than one PageResult of the accumulator,
\* also when two tasks of one round, or one task several times, report the
\* same link.
C1_NoDuplicateResults ==
  \A i, j \in 1..Len(results) : results[i].url = results[j].url => i = j

\* A crawl ended in which two tasks of one round reported the same link, one
\* task reported a link twice, and that link has its PageResult.
C1_Witness ==
  /\ pc = "done"
  /\ \E i, j \in 1..Len(workers) :
        /\ i # j
        /\ workers[i].round = workers[j].round
        /\ ~workers[i].result.error /\ ~workers[j].result.error
        /\ \E u \in Reported(i) \cap Reported(j) :
              /\ u \in ResultUrls
              /\ \E k, l \in 1..Len(workers[i].result.newUrls) :
                    k # l /\ workers[i].result.newUrls[k].url = u
                          /\ workers[i].result.newUrls[l].url = u

\* C2: every URL is dispatched in at most one task of at most one round, and
\* is a member of visited when dispatched; a failed URL is never dispatched
\* again.
C2_DispatchedOnce ==
  \A p, q \in Dispatched :
     /\ EntryAt(p).url \in visited
     /\ EntryAt(p).url = EntryAt(q).url => p = q

\* A crawl ended in which a URL whose fetch failed was reported again by
\* another task, and a URL of a task that returned an error was too.
C2_Witness ==
  /\ pc = "done"
  /\ \E p \in Dispatched : \E j \in 1..Len(workers) :
        /\ ~fetchPage(site, EntryAt(p).url).ok
        /\ j # p[1]
        /\ workers[j].round >= workers[p[1]].round
        /\ ~workers[j].result.error
        /\ EntryAt(p).url \in Reported(j)
  /\ \E p \in Dispatched : \E j \in 1..Len(workers) :
        /\ workers[p[1]].result.error
        /\ j # p[1]
        /\ workers[j].round >= workers[p[1]].round
        /\ ~workers[j].result.error
        /\ EntryAt(p).url \in Reported(j)

MinDepth(frontier) ==
  CHOOSE d \in {frontier[k].depth : k \in 1..Len(frontier)} :
     \A k \in 1..Len(frontier) : d <= frontier[k].depth

\* C3: for maxDepth >= 0 a crawl performs at most maxDepth + 1 rounds, and
\* each round strictly increases the minimum depth present in the frontier.
C3_RoundBound ==
  /\ [](maxDepth >= 0 => round <= maxDepth + 1)
  /\ [][(Len(currentUrls) > 0 /\ Len(currentUrls') > 0 /\ currentUrls' # currentUrls)
           => MinDepth(currentUrls') > MinDepth(currentUrls)]_vars

\* A crawl that needed all of its maxDepth + 1 rounds, with more than one.
C3_Witness == pc = "done" /\ maxDepth >= 2 /\ round = maxDepth + 1 /\ Len(results) > round

\* The workers of the round in progress whose WorkerResult has no error field.
GoodWorkers == {i \in RoundWorkers(workers, round) : ~workers[i].result.error}

FrontierUrls(frontier) == {frontier[k].url : k \in 1..Len(frontier)}

\* The step in which the await of crawl() returns the WorkerResults of a round.
MergeStep == pc = "await" /\ AllFulfilled(workers, round) /\ (pc' # pc \/ round' # round)

\* C6: merging a round, a WorkerResult with an error field adds none of its
\* page results to the accumulator and none of its links to visited or to the
\* next frontier; the results and links of the other WorkerResults of the
\* round are merged, and the round is not aborted.
C6_ErroredOutcomeDropped ==
  [][MergeStep =>
       /\ \A i \in GoodWorkers :
             /\ \A r \in Range(workers[i].result.results) : r \in Range(results')
             /\ Reported(i) \subseteq visited'
             /\ Reported(i) \ visited \subseteq FrontierUrls(currentUrls')
       /\ \A i \in RoundWorkers(workers, round) \ GoodWorkers :
             /\ \A r \in Range(workers[i].result.results) : r \notin Range(results')
             /\ \A u \in Reported(i) :
                   u \in (visited' \ visited) \cup FrontierUrls(currentUrls')
                      => \E j \in GoodWorkers : u \in Reported(j)
       /\ Len(currentUrls') > 0 => pc' = "await" /\ round' = round + 1
    ]_vars

\* A round was merged in which one WorkerResult carried an error together with
\* page results and links, another carried none, and the crawl went on.
C6_Witness ==
  \E i, j \in 1..Len(workers) :
     /\ workers[i].round = workers[j].round
     /\ workers[i].round < round
     /\ workers[i].promise = "resolved" /\ workers[i].result.error
     /\ Len(workers[i].result.results) > 0 /\ Len(workers[i].result.newUrls) > 0
     /\ workers[j].promise = "resolved" /\ ~workers[j].result.error
     /\ Len(workers[j].result.results) > 0 /\ Len(workers[j].result.newUrls) > 0
     /\ \A r \in Range(workers[j].result.results) : r \in Range(results)

\* C7: round barrier.  All tasks in flight belong to the round in progress,
\* and no round is dispatched and nothing is merged into the accumulator or
\* visited before every executor of the round has returned.
C7_RoundBarrier ==
  /\ [](\A i \in 1..Len(workers) : workers[i].thread = "running" => workers[i].round = round)
  /\ [][(pc # "idle" /\ (round' # round \/ results' # results \/ visited' # visited))
          => \A i \in RoundWorkers(workers, round) : workers[i].promise # "pending"]_vars

\* The coordinator is waiting at the barrier: one task of the round has
\* returned page results, another is still in flight.
C7_Witness ==
  /\ pc = "await"
  /\ \E i, j \in RoundWorkers(workers, round) :
        /\ workers[i].promise = "resolved" /\ Len(workers[i].result.results) > 0
        /\ workers[j].thread = "running"

\* The frontier entries dispatched or waiting in the frontier.
AllEntries == {EntryAt(p) : p \in Dispatched} \cup Range(currentUrls)

\* C10: depth monotonicity.  An entry of depth d+1 was found on a page
\* recorded at depth d, the root is the only entry of depth 0, and no
\* PageResult is deeper than maxDepth.
C10_DepthMonotone ==
  /\ \A e \in AllEntries :
        /\ e.depth >= 0
        /\ e.depth = 0 => e.url = rootUrl
        /\ e.depth > 0 =>
              \E k \in 1..Len(results) :
                 /\ results[k].depth = e.depth - 1
                 /\ e.url \in Range(fetchPage(site, results[k].url).links)
  /\ Cardinality({p \in Dispatched : EntryAt(p).depth = 0}) <= 1
  /\ \A k \in 1..Len(results) : results[k].depth <= maxDepth

\* A crawl ended with a PageResult at depth maxDepth = 2 next to one at depth 1.
C10_Witness ==
  /\ pc = "done"
  /\ maxDepth >= 2
  /\ \E k, l \in 1..Len(results) : results[k].depth = maxDepth /\ results[l].depth = 1

\* C4: when an executor of a round crashes, the page results the other tasks
\* of the round returned are merged into the accumulator.
C4_CrashIsolated ==
  [][(pc = "await" /\ AnyRejected(workers, round) /\ pc' = "done")
       => \A i \in GoodWorkers :
             workers[i].promise = "resolved"
                => \A r \in Range(workers[i].result.results) : r \in Range(results')]_vars

(***************************************************************************)
(* The crawl under fair scheduling: the event loop runs every continuation *)
(* that is ready, and every worker thread ends in one of its ways.         *)
(***************************************************************************)
WorkerStep == \E i \in 1..Len(workers) : WorkerMessage(i) \/ WorkerError(i) \/ WorkerExit(i)

FairSpec ==
  /\ Init /\ [][Next]_vars
  /\ WF_vars(Crawl) /\ WF_vars(RoundResolved) /\ WF_vars(RoundRejected)
  /\ WF_vars(WorkerStep)

\* C5: crawl() always completes.
C5_CrawlCompletes == <>(pc = "done")

(***************************************************************************)
(* The work distributor on its own: crawl() at the top of its while loop   *)
(* with a frontier of any length up to MaxFrontier and any worker count up *)
(* to MaxPool, taking one pass of the loop.                                *)
(***************************************************************************)
PageUrl(k) == "http://s/p" \o ToString(k)

Frontier(n, d) == [k \in 1..n |-> [url |-> PageUrl(k), depth |-> d]]

InitDistribute ==
  /\ site = [h \in Hrefs |-> Null]
  /\ rootUrl = R
  /\ maxDepth \in 0..MaxDepthBound
  /\ maxWorkers \in 1..MaxPool
  /\ \E n \in 0..MaxFrontier : currentUrls = Frontier(n, maxDepth)
  /\ visited = {rootUrl} \cup FrontierUrls(currentUrls)
  /\ results = <<>>
  /\ pc = "loop"
  /\ round = maxDepth
  /\ workers = <<>>
  /\ NoSingle /\ NoUrlCall /\ NoCall

DistributeRound ==
  /\ pc = "loop"
  /\ LoopIteration(currentUrls)
  /\ UNCHANGED <<singleVars, urlVars, callVars, site, rootUrl, maxDepth, maxWorkers, visited, results, currentUrls>>

NextDistribute == DistributeRound

SpecDistribute == InitDistribute /\ [][NextDistribute]_vars

\* The slices of the tasks dispatched, concatenated in task order.
RECURSIVE ConcatSlices(_, _)
ConcatSlices(ws, k) ==
  IF k = 0 THEN <<>> ELSE ConcatSlices(ws, k - 1) \o ws[k].task.urls

\* The least q with q * count >= len, i.e. ceil(len / count).
Ceiling(len, count) == CHOOSE q \in 0..len : q * count >= len /\ \A p \in 0..(q - 1) : p * count < len

SliceSizes == [t \in 1..Len(workers) |-> Len(workers[t].task.urls)]

\* C8: for workerCount >= 1 the tasks of distributeUrls partition the
\* frontier: their slices concatenated in task order are the input sequence.
C8_ExactPartition ==
  pc # "loop" => ConcatSlices(workers, Len(workers)) = currentUrls

\* A frontier of at least 7 entries was cut into at least 3 tasks, the last shorter.
C8_Witness ==
  /\ pc = "await"
  /\ Len(currentUrls) >= 7
  /\ Len(workers) >= 3
  /\ SliceSizes[Len(workers)] < SliceSizes[1]

\* C9: distributeUrls yields at most workerCount tasks, none empty; all but
\* the last hold ceil(len/workerCount) entries and the last holds the
\* remaining 1..ceil(len/workerCount); 10 entries on 4 workers give 3,3,3,1;
\* an empty frontier gives no task.
C9_SliceSizes ==
  pc # "loop" =>
    LET len == Len(currentUrls)
        q == Ceiling(len, maxWorkers)
    IN  /\ Len(workers) <= maxWorkers
        /\ \A t \in 1..Len(workers) :
              /\ SliceSizes[t] >= 1
              /\ t < Len(workers) => SliceSizes[t] = q
              /\ t = Len(workers) => SliceSizes[t] <= q
        /\ len = 0 => Len(workers) = 0
        /\ (len = 10 /\ maxWorkers = 4) => SliceSizes = <<3, 3, 3, 1>>

\* 10 entries were distributed over 4 workers.
C9_Witness ==
  pc = "await" /\ Len(currentUrls) = 10 /\ maxWorkers = 4 /\ Len(workers) = 4

\* C20: distributeUrls spreads the frontier evenly: the sizes of any two tasks
\* of a round differ by at most one entry, and a frontier of at least
\* workerCount entries gives exactly workerCount tasks.
C20_EvenDistribution ==
  pc # "loop" =>
    /\ \A t, u \in 1..Len(workers) : SliceSizes[t] - SliceSizes[u] <= 1
    /\ Len(currentUrls) >= maxWorkers => Len(workers) = maxWorkers

(***************************************************************************)
(* Properties of the merge, the crawl boundary and the frame.              *)
(***************************************************************************)
\* Scheme and hostname of two absolute URLs are identical.
SameOrigin(u, v) ==
  /\ u \in DOMAIN UrlTable /\ v \in DOMAIN UrlTable
  /\ UrlTable[u].protocol = UrlTable[v].protocol
  /\ UrlTable[u].hostname = UrlTable[v].hostname

\* The number of links, duplicates counted, with the scheme and hostname of p.
SameOriginCount(links, p) == Cardinality({k \in 1..Len(links) : SameOrigin(links[k], p)})

\* The ratio as a fraction: 0 for a page without links, otherwise the number of
\* links with the scheme and hostname of p over the number of links.
RatioOf(links, p) ==
  IF Len(links) = 0
  THEN [num |-> 0, den |-> 1]
  ELSE [num |-> SameOriginCount(links, p), den |-> Len(links)]

\* The links the error-free tasks of the round in progress reported.
GoodReported == UNION {Reported(i) : i \in GoodWorkers}

\* C11: after the merge of a round the next frontier holds, exactly once each,
\* the links that an error-free task of the round reported, that are
\* same-domain with the root and that were not in visited, and nothing else;
\* with maxDepth 1 and a root page linking to [C, X (other host), C] the
\* accumulator holds the root with ratio 2/3 and the frontier is [(C, 1)].
C11_NextFrontier ==
  [][MergeStep =>
       LET fresh == {u \in GoodReported : SameOrigin(u, rootUrl) /\ u \notin visited}
       IN  /\ FrontierUrls(currentUrls') = fresh
           /\ Len(currentUrls') = Cardinality(fresh)
           /\ (/\ maxDepth = 1 /\ round = 1 /\ GoodWorkers # {}
               /\ fetchPage(site, rootUrl) = [ok |-> TRUE, links |-> <<C, X, C>>])
              => /\ results' = <<[url |-> rootUrl, depth |-> 0, ratio |-> [num |-> 2, den |-> 3]]>>
                 /\ currentUrls' = <<[url |-> C, depth |-> 1]>>
    ]_vars

\* The scenario: maxDepth 1, the root page links to [C, X, C], round 1 merged.
C11_Witness ==
  /\ maxDepth = 1
  /\ round = 2
  /\ fetchPage(site, rootUrl).links = <<C, X, C>>
  /\ Len(results) = 1 /\ results[1].ratio = [num |-> 2, den |-> 3]
  /\ currentUrls = <<[url |-> C, depth |-> 1]>>

\* C12: with maxDepth = 0 only the root is dispatched, its worker reports no
\* link, the frontier after the round is empty, the crawl ends after one
\* round and the accumulator holds at most the root's PageResult with the
\* ratio of the root page.
C12_DepthZero ==
  /\ [](maxDepth = 0 =>
          /\ round <= 1
          /\ \A p \in Dispatched : EntryAt(p) = [url |-> rootUrl, depth |-> 0]
          /\ \A i \in 1..Len(workers) : Reported(i) = {}
          /\ Len(results) <= 1
          /\ \A k \in 1..Len(results) :
                LET links == fetchPage(site, rootUrl).links
                IN  /\ results[k].url = rootUrl /\ results[k].depth = 0
                    /\ results[k].ratio = RatioOf(links, rootUrl))
  /\ [][(maxDepth = 0 /\ MergeStep) => (currentUrls' = <<>> /\ pc' = "done")]_vars

\* A crawl with maxDepth 0 ended with the root recorded, its page having
\* same-domain links.
C12_Witness ==
  /\ maxDepth = 0
  /\ pc = "done"
  /\ Len(results) = 1
  /\ results[1].ratio.num > 0
  /\ currentUrls = <<>>

\* C15: crawl boundary.  Every URL in visited, in the frontier, in a task and
\* in the accumulator has the scheme and hostname of the root.
C15_CrawlBoundary ==
  \A u \in visited \cup FrontierUrls(currentUrls) \cup ResultUrls
             \cup {EntryAt(p).url : p \in Dispatched} :
     SameOrigin(u, rootUrl)

\* A crawl ended that expanded a page linking to the other host.
C15_Witness ==
  /\ pc = "done"
  /\ X \notin visited
  /\ \E k \in 1..Len(results) :
        /\ results[k].depth < maxDepth
        /\ X \in Range(fetchPage(site, results[k].url).links)
        /\ C \in visited

\* An event of a worker thread: some Worker record changes.
ExecutorStep == \E i \in 1..Len(workers) : workers'[i] # workers[i]

\* C19: visited and the accumulator change only in the coordinator between
\* rounds: no step changes them from the dispatch of a round until all its
\* tasks have returned, no executor event writes them, an executor keeps the
\* task it was given, and what it posts depends on that task and the site
\* alone.
C19_CoordinatorOwnsState ==
  /\ [][ExecutorStep => (visited' = visited /\ results' = results)]_vars
  /\ [][(visited' # visited \/ results' # results)
          => \/ pc = "idle"
             \/ pc = "await" /\ \A i \in RoundWorkers(workers, round) :
                                     workers[i].promise # "pending"]_vars
  /\ [][\A i \in 1..Len(workers) : workers'[i].task = workers[i].task]_vars
  /\ [](\A i \in 1..Len(workers) :
          workers[i].promise = "resolved"
             => \E ord \in Orders(Len(workers[i].task.urls)) :
                   workers[i].result = processUrls(site, workers[i].task, ord, workers[i].threw))

\* In a later round one task has returned page results that are not in the
\* accumulator, while another task of the round is in flight.
C19_Witness ==
  /\ pc = "await"
  /\ round >= 2
  /\ Len(results) >= 1
  /\ \E i, j \in RoundWorkers(workers, round) :
        /\ workers[i].promise = "resolved" /\ ~workers[i].result.error
        /\ Len(workers[i].result.results) > 0
        /\ \A r \in Range(workers[i].result.results) : r \notin Range(results)
        /\ workers[j].thread = "running"

(***************************************************************************)
(* The executor on its own: one worker thread started on one task whose    *)
(* slice holds any entries, among them a page of another host and a string *)
(* that is no URL.  A fetch that fails and a page whose processing throws  *)
(* both end processPage with false and are the outcome Null.               *)
(***************************************************************************)
MaxSlice == 2

SliceEntries == {[url |-> u, depth |-> d] : u \in {R, A, X, Malformed}, d \in 0..1}

Slices == UNION {[1..n -> SliceEntries] : n \in 1..MaxSlice}

InitWorker ==
  /\ site \in {s \in Sites : s[B] = Null /\ s[C] = Null}
  /\ rootUrl \in RootUrls
  /\ maxDepth \in 0..MaxDepthBound
  /\ maxWorkers = 1
  /\ currentUrls \in Slices
  /\ visited = {rootUrl} \cup FrontierUrls(currentUrls)
  /\ results = <<>>
  /\ pc = "await"
  /\ round = 1
  /\ workers = <<NewWorker([id |-> 0, urls |-> currentUrls, rootUrl |-> rootUrl,
                            maxDepth |-> maxDepth], 1)>>
  /\ NoSingle /\ NoUrlCall /\ NoCall

NextWorker == \E i \in 1..Len(workers) : WorkerMessage(i) \/ WorkerError(i) \/ WorkerExit(i)

SpecWorker == InitWorker /\ [][NextWorker]_vars

\* The positions of a slice whose page is fetched and processed: the first
\* occurrence of a URL, within the depth limit, whose fetch returns a page.
OkEntries(task) ==
  {n \in 1..Len(task.urls) :
      /\ \A m \in 1..(n - 1) : task.urls[m].url # task.urls[n].url \/ task.urls[m].depth > task.maxDepth
      /\ task.urls[n].depth <= task.maxDepth
      /\ task.urls[n].url \in Hrefs
      /\ site[task.urls[n].url].ok}

\* C14: inside one task an entry whose fetch fails (or whose processing
\* throws) contributes no PageResult and no link and does not abort the task:
\* the entries whose fetch succeeds are all recorded with their links, and the
\* task's outcome carries no error unless processUrls itself threw.
C14_EntryFailureIsolated ==
  \A i \in 1..Len(workers) :
     workers[i].promise = "resolved" =>
       LET task == workers[i].task
           out == workers[i].result
           ok == OkEntries(task)
       IN  /\ ~workers[i].threw => ~out.error
           /\ {out.results[k].url : k \in 1..Len(out.results)} = {task.urls[n].url : n \in ok}
           /\ Len(out.results) = Cardinality(ok)
           /\ \A k \in 1..Len(out.newUrls) :
                 \E n \in ok : /\ out.newUrls[k].url \in Range(site[task.urls[n].url].links)
                               /\ out.newUrls[k].depth = task.urls[n].depth + 1
           /\ \A n \in ok :
                 task.urls[n].depth < task.maxDepth =>
                   \A link \in Range(site[task.urls[n].url].links) :
                      (SameOrigin(link, task.rootUrl) /\ link \notin FrontierUrls(task.urls))
                         => link \in Reported(i)

\* A task of two entries returned without error: the fetch of one entry
\* failed, the other was recorded and reported a link.
C14_Witness ==
  /\ Len(workers) = 1
  /\ workers[1].promise = "resolved" /\ ~workers[1].result.error
  /\ Len(workers[1].task.urls) = 2
  /\ \E n \in 1..2 : ~fetchPage(site, workers[1].task.urls[n].url).ok
  /\ Len(workers[1].result.results) = 1
  /\ Len(workers[1].result.newUrls) > 0

\* C16: the ratio recorded for a page P with link list L is 0 when L is
\* empty and otherwise the number of links with the scheme and hostname of P,
\* duplicates counted, over the length of L; it lies in [0,1], is 1 when every
\* link is same-domain with P, and is taken against P, not against the root.
C16_RatioOfPage ==
  \A i \in 1..Len(workers) :
     workers[i].promise = "resolved" =>
       \A k \in 1..Len(workers[i].result.results) :
          LET r == workers[i].result.results[k]
              L == fetchPage(site, r.url).links
          IN  /\ r.ratio = RatioOf(L, r.url)
              /\ 0 <= r.ratio.num /\ r.ratio.num <= r.ratio.den /\ r.ratio.den >= 1
              /\ Len(L) = 0 => r.ratio.num = 0
              /\ (Len(L) > 0 /\ \A link \in Range(L) : SameOrigin(link, r.url))
                    => r.ratio.num = r.ratio.den

\* A page of another host than the root was recorded with ratio 0 for its two
\* links to the root's host, and a page with a repeated link with ratio 2/3.
C16_Witness ==
  /\ Len(workers) = 1
  /\ workers[1].promise = "resolved"
  /\ \E k \in 1..Len(workers[1].result.results) :
        /\ workers[1].result.results[k].url = X
        /\ workers[1].result.results[k].ratio = [num |-> 0, den |-> 2]
  /\ \E k \in 1..Len(workers[1].result.results) :
        workers[1].result.results[k].ratio = [num |-> 2, den |-> 3]

(***************************************************************************)
(* isSameDomain on its own: one call with any two URL strings and any base *)
(* string; answer holds what the call returns for (url1, url2), for        *)
(* (url2, url1) and for (url1, url1).                                      *)
(***************************************************************************)
UrlStrings == DOMAIN UrlTable \cup DOMAIN RelativeRefs \cup {Malformed}

BaseStrings == {"http://s", "http://s/a", "https://s/", "http://x/", "mailto:m", NotAUrl, Malformed}

InitUrl ==
  /\ site = [h \in Hrefs |-> Null]
  /\ rootUrl = R
  /\ maxDepth = 0
  /\ maxWorkers = 1
  /\ visited = {}
  /\ results = <<>>
  /\ currentUrls = <<>>
  /\ pc = "call"
  /\ round = 0
  /\ workers = <<>>
  /\ NoSingle
  /\ url1 \in UrlStrings
  /\ url2 \in UrlStrings
  /\ baseUrl \in BaseStrings
  /\ answer = <<>>
  /\ NoCall

CallIsSameDomain ==
  /\ pc = "call"
  /\ answer' = <<isSameDomain(url1, url2, baseUrl),
                 isSameDomain(url2, url1, baseUrl),
                 isSameDomain(url1, url1, baseUrl)>>
  /\ pc' = "returned"
  /\ UNCHANGED <<singleVars, callVars, url1, url2, baseUrl, site, rootUrl, maxDepth, maxWorkers,
                 visited, results, currentUrls, round, workers>>

NextUrl == CallIsSameDomain

SpecUrl == InitUrl /\ [][NextUrl]_vars

\* A string that parses as an absolute URL on its own.
WellFormed(u) == u \in DOMAIN UrlTable

\* C17: isSameDomain is symmetric in its first two arguments for every base;
\* it is reflexive for a well-formed A under every base URL; and two
\* well-formed URLs are same-domain exactly when scheme and hostname are
\* identical, so another subdomain or another protocol gives false.
C17_SymmetricReflexive ==
  pc = "returned" =>
    /\ answer[1] = answer[2]
    /\ (WellFormed(url1) /\ WellFormed(baseUrl)) => answer[3] = TRUE
    /\ (WellFormed(url1) /\ WellFormed(url2) /\ WellFormed(baseUrl))
          => (answer[1] <=> SameOrigin(url1, url2))
    /\ (url1 = "http://s/" /\ url2 \in {"http://w.s/", "https://s/"} /\ WellFormed(baseUrl))
          => answer[1] = FALSE

\* The call compared the same host under two protocols: false both ways,
\* true for the URL against itself.
C17_Witness ==
  /\ pc = "returned"
  /\ url1 = "https://s/" /\ url2 = "http://s/a"
  /\ WellFormed(baseUrl)
  /\ answer = <<FALSE, FALSE, TRUE>>

\* C18: isSameDomain returns a boolean for every input and a URL that does
\* not parse against the base, on either side, yields false, whatever the
\* base; non-web schemes compare false with a web URL and the empty string
\* resolves to the base.
C18_FailsClosed ==
  pc = "returned" =>
    /\ answer \in [1..3 -> BOOLEAN]
    /\ (NewURL(url1, baseUrl) = Invalid \/ NewURL(url2, baseUrl) = Invalid)
          => (answer[1] = FALSE /\ answer[2] = FALSE)
    /\ (url1 = Malformed \/ url2 = Malformed) => (answer[1] = FALSE /\ answer[2] = FALSE)
    /\ NewURL(url1, baseUrl) = Invalid => answer[3] = FALSE
    /\ (url1 = "mailto:m" /\ url2 \in Hrefs) => answer[1] = FALSE
    /\ (url1 = "" /\ url2 = "" /\ baseUrl \in Hrefs \cup RootUrls) => answer[1] = TRUE

\* The call was given the same malformed string on both sides with a base
\* that is a URL.
C18_Witness ==
  /\ pc = "returned"
  /\ url1 = Malformed /\ url2 = Malformed
  /\ WellFormed(baseUrl)
  /\ answer = <<FALSE, FALSE, FALSE>>

(***************************************************************************)
(* The single-threaded crawler: WebCrawler.  crawl() takes batches of      *)
(* batchSize entries off its queue, starts their fetches together and      *)
(* awaits them all; batch holds the entries of the batch, each with        *)
(* whether its callback went on to fetch and whether that fetch is still   *)
(* in flight.                                                              *)
(***************************************************************************)
MaxBatch == 2

DefaultBatchSize == 10

\* options.batchSize || 10; 0 stands for "not given".
BatchSizeOf(optBatchSize) == IF optBatchSize = 0 THEN DefaultBatchSize ELSE optBatchSize

\* Variant: an entry whose URL was already visited is fetched again.
RECURSIVE StartBatchNoDedup(_, _, _)
StartBatchNoDedup(entries, vis, depthLimit) ==
  IF entries = <<>>
  THEN [visited |-> vis, batch |-> <<>>]
  ELSE LET e == Head(entries)
           skip == e.depth > depthLimit
           rest == StartBatchNoDedup(Tail(entries), vis \cup {e.url}, depthLimit)
       IN  [visited |-> rest.visited,
            batch |-> <<[url |-> e.url, depth |-> e.depth, fetch |-> ~skip, pending |-> ~skip]>>
                        \o rest.batch]

\* batch.map(async ...) up to the first await of every callback: an entry
\* already visited or beyond maxDepth yields null, the others are marked
\* visited and fetched.
RECURSIVE StartBatch(_, _, _)
StartBatch(entries, vis, depthLimit) ==
  IF entries = <<>>
  THEN [visited |-> vis, batch |-> <<>>]
  ELSE LET e == Head(entries)
           skip == e.url \in vis \/ e.depth > depthLimit
           rest == StartBatch(Tail(entries), IF skip THEN vis ELSE vis \cup {e.url}, depthLimit)
       IN  [visited |-> rest.visited,
            batch |-> <<[url |-> e.url, depth |-> e.depth, fetch |-> ~skip, pending |-> ~skip]>>
                        \o rest.batch]

\* extractLinksFromPage: null when fetchPage returns null.
extractLinksFromPage(s, url) == fetchPage(s, url)

\* The for loop over the awaited results of a batch: what it pushes to
\* this.results and to the queue.
RECURSIVE ProcessBatch(_, _, _, _, _)
ProcessBatch(s, b, vis, root, depthLimit) ==
  IF b = <<>>
  THEN [results |-> <<>>, queue |-> <<>>]
  ELSE LET e == Head(b)
           pageData == extractLinksFromPage(s, e.url)
           rest == ProcessBatch(s, Tail(b), vis, root, depthLimit)
           kept == SelectSeq(pageData.links, LAMBDA link :
                      link \notin vis /\ isSameDomain(link, root, root))
       IN  IF ~e.fetch \/ ~pageData.ok
           THEN rest
           ELSE [results |-> <<[url |-> e.url, depth |-> e.depth,
                                ratio |-> calculateRatio(pageData.links, e.url, root)]>>
                               \o rest.results,
                 queue |-> (IF e.depth < depthLimit
                            THEN [k \in 1..Len(kept) |-> [url |-> kept[k], depth |-> e.depth + 1]]
                            ELSE <<>>) \o rest.queue]

\* One pass of the while loop of WebCrawler.crawl() up to its await or its return.
SingleLoop(q, vis) ==
  IF Len(q) > 0
  THEN LET n == Max(0, Min(batchSize, Len(q)))
           started == StartBatch(SubSeq(q, 1, n), vis, maxDepth)
       IN  /\ batch' = started.batch
           /\ visited' = started.visited
           /\ queue' = SubSeq(q, n + 1, Len(q))
           /\ pc' = "single_await"
  ELSE /\ batch' = <<>>
       /\ visited' = vis
       /\ queue' = q
       /\ pc' = "done"

\* WebCrawler.crawl() is called: seed the queue, enter the loop.
SingleCrawl ==
  /\ pc = "single_idle"
  /\ SingleLoop(<<[url |-> rootUrl, depth |-> 0]>>, visited)
  /\ UNCHANGED <<batchSize, urlVars, callVars, site, rootUrl, maxDepth, maxWorkers, results,
                 currentUrls, round, workers>>

\* The fetch of one entry of the batch returns; its promise is fulfilled.
FetchReturns(k) ==
  /\ pc = "single_await"
  /\ k \in 1..Len(batch)
  /\ batch[k].pending
  /\ batch' = [batch EXCEPT ![k].pending = FALSE]
  /\ UNCHANGED <<batchSize, queue, urlVars, callVars, crawlVars, pc>>

\* Variant: Promise.all does not wait for the fetches in flight.
BatchReturnedAtOnce(b) == TRUE

\* Promise.all(promises) is fulfilled: every promise of the batch is.
BatchReturned(b) == \A k \in 1..Len(b) : ~b[k].pending

\* await Promise.all(promises) returns: record the pages, queue their links, loop.
SingleBatch ==
  /\ pc = "single_await"
  /\ BatchReturned(batch)
  /\ LET out == ProcessBatch(site, batch, visited, rootUrl, maxDepth)
     IN  /\ results' = results \o out.results
         /\ SingleLoop(queue \o out.queue, visited)
  /\ UNCHANGED <<batchSize, urlVars, callVars, site, rootUrl, maxDepth, maxWorkers,
                 currentUrls, round, workers>>

InitSingle ==
  /\ site \in Sites
  /\ rootUrl \in RootUrls
  /\ maxDepth \in 0..MaxDepthBound
  /\ maxWorkers = 1
  /\ visited = {}
  /\ results = <<>>
  /\ currentUrls = <<>>
  /\ pc = "single_idle"
  /\ round = 0
  /\ workers = <<>>
  /\ \E b \in 0..MaxBatch : batchSize = BatchSizeOf(b)
  /\ queue = <<>>
  /\ batch = <<>>
  /\ NoUrlCall /\ NoCall

SingleFetchStep == \E k \in 1..Len(batch) : FetchReturns(k)

NextSingle == SingleCrawl \/ SingleFetchStep \/ SingleBatch

SpecSingle == InitSingle /\ [][NextSingle]_vars

(***************************************************************************)
(* Either crawler on a site whose root page cannot be fetched: the fetch   *)
(* fails (status, content type, network, timeout: fetchPage returns null)  *)
(* or the root is a string that is no URL.  Every continuation that is     *)
(* ready runs and every worker thread ends.                                *)
(***************************************************************************)
InitRootFails ==
  /\ site \in Sites
  /\ rootUrl \in RootUrls \cup {NotAUrl}
  /\ ~fetchPage(site, rootUrl).ok
  /\ maxDepth \in 0..MaxDepthBound
  /\ visited = {}
  /\ results = <<>>
  /\ currentUrls = <<>>
  /\ round = 0
  /\ workers = <<>>
  /\ queue = <<>>
  /\ batch = <<>>
  /\ NoUrlCall /\ NoCall
  /\ \/ pc = "idle" /\ maxWorkers \in WorkerCounts /\ batchSize = 0
     \/ pc = "single_idle" /\ maxWorkers = 1 /\ \E b \in 0..MaxBatch : batchSize = BatchSizeOf(b)

NextRootFails == Next \/ NextSingle

FairSpecRootFails ==
  /\ InitRootFails /\ [][NextRootFails]_vars
  /\ WF_vars(Crawl) /\ WF_vars(RoundResolved) /\ WF_vars(RoundRejected)
  /\ WF_vars(WorkerStep)
  /\ WF_vars(SingleCrawl) /\ WF_vars(SingleFetchStep) /\ WF_vars(SingleBatch)

IsPrefix(s, t) == Len(s) <= Len(t) /\ SubSeq(t, 1, Len(s)) = s

\* C26: in every step of a crawl visited only grows and the accumulator is
\* append-only: the PageResults present before a step are a prefix of those
\* present after it, unmodified.
C26_GrowOnly ==
  [][visited \subseteq visited' /\ IsPrefix(results, results')]_vars

\* A crawl in its third round: the accumulator was appended to in two merges.
C26_Witness ==
  /\ round = 3
  /\ Cardinality(visited) >= 3
  /\ \E k, l \in 1..Len(results) : k < l /\ results[k].depth = 0 /\ results[l].depth = 1

\* C30: every frontier entry dispatched in round k (counted from 0) has
\* depth k, and every PageResult appended while merging round k has depth k.
C30_RoundIsDepth ==
  /\ [](\A i \in 1..Len(workers) :
          \A n \in 1..Len(workers[i].task.urls) :
             workers[i].task.urls[n].depth = workers[i].round - 1)
  /\ [][MergeStep =>
          \A k \in (Len(results) + 1)..Len(results') : results'[k].depth = round - 1]_vars

\* The third round was merged: it had a task of two entries and appended a
\* PageResult of depth 2.
C30_Witness ==
  /\ pc = "done"
  /\ round = 3
  /\ \E i \in RoundWorkers(workers, 3) : Len(workers[i].task.urls) = 2
  /\ \E k \in 1..Len(results) : results[k].depth = 2

(***************************************************************************)
(* Functions called on their own.  No crawler is at work: the crawler      *)
(* state is as constructed; args holds the arguments of the call and ret,  *)
(* once pc is "returned", the one-element sequence of what it returned.    *)
(***************************************************************************)
NoCrawl ==
  /\ site = [h \in Hrefs |-> Null]
  /\ rootUrl = R
  /\ maxDepth = 0
  /\ maxWorkers = 1
  /\ visited = {}
  /\ results = <<>>
  /\ currentUrls = <<>>
  /\ round = 0
  /\ workers = <<>>
  /\ NoSingle /\ NoUrlCall


(***************************************************************************)
(* getOptimalWorkerCount on a machine of 1..MaxCpu cores with any integer  *)
(* argument; 0 is the argument left out (undefined, like 0, is falsy).     *)
(***************************************************************************)
MaxCpu == 8

InitWorkerCount ==
  /\ NoCrawl
  /\ pc = "call"
  /\ args \in [maxWorkers : (0 - 2)..(MaxCpu + 2), cpuCores : 1..MaxCpu]
  /\ ret = <<>>

CallGetOptimalWorkerCount ==
  /\ pc = "call"
  /\ ret' = <<getOptimalWorkerCount(args.maxWorkers, args.cpuCores)>>
  /\ pc' = "returned"
  /\ UNCHANGED <<crawlVars, singleVars, urlVars, args>>

NextWorkerCount == CallGetOptimalWorkerCount

SpecWorkerCount == InitWorkerCount /\ [][NextWorkerCount]_vars

\* C23: for every core count >= 1 and every maxWorkers argument
\* getOptimalWorkerCount returns a positive integer that exceeds neither the
\* core count nor, when maxWorkers is given, maxWorkers; without maxWorkers
\* it returns max(1, cores - 1).
C23_WorkerCountInRange ==
  pc = "returned" =>
    /\ ret[1] >= 1
    /\ ret[1] <= args.cpuCores
    /\ args.maxWorkers # 0 => ret[1] <= args.maxWorkers
    /\ args.maxWorkers = 0 => ret[1] = Max(1, args.cpuCores - 1)

(***************************************************************************)
(* fetchPage on its own, against the transport: args holds the URL string  *)
(* and what the network would do with a request for it (the outcome of     *)
(* fetch, the status, the content-type header, the outcome of text()).     *)
(***************************************************************************)
\* A few of the extensions of FILE_EXTENSIONS.
FILE_EXTENSIONS == {".txt", ".pdf", ".css", ".js"}

EndsWith(str, ext) ==
  Len(str) >= Len(ext) /\ SubSeq(str, Len(str) - Len(ext) + 1, Len(str)) = ext

\* String.prototype.includes
Includes(str, sub) ==
  \E i \in 1..(Len(str) - Len(sub) + 1) : SubSeq(str, i, i + Len(sub) - 1) = sub

\* URL.pathname of an http(s) URL of the table.
Pathname(url) ==
  LET u == UrlTable[url]
  IN  SubSeq(u.href, Len(u.protocol) + Len(u.hostname) + 3, Len(u.href))

\* isLikelyFileUrl: false when the URL does not parse.
isLikelyFileUrl(url) ==
  IF isValidUrl(url) /\ UrlTable[url].hostname # ""
  THEN \E ext \in FILE_EXTENSIONS : EndsWith(Pathname(url), ext)
  ELSE FALSE

\* What a call of fetchPage can end with.
ReturnsBody(body) == [threw |-> FALSE, null |-> FALSE, body |-> body]
ReturnsNull == [threw |-> FALSE, null |-> TRUE, body |-> ""]
Throws == [threw |-> TRUE, null |-> FALSE, body |-> ""]

\* Variant: an error of response.text() is not caught.
fetchPageTextUncaught(url, response) ==
  IF isLikelyFileUrl(url) THEN ReturnsNull
  ELSE IF ~isValidUrl(url) THEN ReturnsNull
  ELSE IF response.fetch # "response" THEN ReturnsNull
  ELSE IF ~response.ok THEN ReturnsNull
  ELSE IF response.contentType = "" \/ ~Includes(response.contentType, "text/html")
       THEN ReturnsNull
  ELSE IF response.text = "error" THEN Throws
  ELSE ReturnsBody(response.body)

\* fetchPage against the transport; every throw inside the try block ends in
\* the catch, which returns null.  contentType "" is a missing header.
fetchPageHttp(url, response) ==
  IF isLikelyFileUrl(url) THEN ReturnsNull
  ELSE IF ~isValidUrl(url) THEN ReturnsNull
  ELSE IF response.fetch # "response" THEN ReturnsNull
  ELSE IF ~response.ok THEN ReturnsNull
  ELSE IF response.contentType = "" \/ ~Includes(response.contentType, "text/html")
       THEN ReturnsNull
  ELSE IF response.text = "error" THEN ReturnsNull
  ELSE ReturnsBody(response.body)

Responses ==
  [fetch : {"response", "network_error", "timeout"},
   ok : BOOLEAN,
   contentType : {"", "text/html", "text/html; charset=utf-8", "application/json"},
   text : {"body", "error"},
   body : {"", "<a href=/a>"}]

InitFetch ==
  /\ NoCrawl
  /\ pc = "call"
  /\ args \in [url : {A, "http://s/f.pdf", NotAUrl}, response : Responses]
  /\ ret = <<>>

CallFetchPage ==
  /\ pc = "call"
  /\ ret' = <<fetchPageHttp(args.url, args.response)>>
  /\ pc' = "returned"
  /\ UNCHANGED <<crawlVars, singleVars, urlVars, args>>

NextFetch == CallFetchPage

SpecFetch == InitFetch /\ [][NextFetch]_vars

\* The request was answered with a successful status and an HTML content
\* type, and the body was read.
GoodResponse ==
  /\ args.url \in DOMAIN UrlTable
  /\ args.response.fetch = "response"
  /\ args.response.ok
  /\ args.response.contentType \in {"text/html", "text/html; charset=utf-8"}
  /\ args.response.text = "body"

\* C25: fetchPage never raises; it returns the page body only when the status
\* is successful, the content type contains text/html and the body was read,
\* and returns none in every other case: non-success status, missing or
\* non-HTML content type, network error, timeout, body read error, invalid URL.
C25_FetchPageNeverRaises ==
  pc = "returned" =>
    /\ ~ret[1].threw
    /\ ~ret[1].null => (GoodResponse /\ ret[1].body = args.response.body)
    /\ ~GoodResponse => ret[1].null

\* The call returned none because reading the body of a good response failed,
\* on a URL that is fetched.
C25_Witness ==
  /\ pc = "returned"
  /\ args.url = A
  /\ args.response.fetch = "response" /\ args.response.ok
  /\ args.response.contentType = "text/html; charset=utf-8"
  /\ args.response.text = "error"
  /\ ret[1] = ReturnsNull

(***************************************************************************)
(* generateTSV on its own.  results is the array the caller passes (the    *)
(* crawler's accumulator, which getResults returns itself); args keeps the *)
(* order in which it was given.  Array.prototype.sort sorts in place and   *)
(* is stable.                                                              *)
(***************************************************************************)
MaxRows == 3

\* The order in which String.prototype.localeCompare puts the URL strings.
CollationRank ==
  [u \in {"http://s", R, A, B, C} |->
     CASE u = "http://s" -> 1
       [] u = R -> 2
       [] u = A -> 3
       [] u = B -> 4
       [] u = C -> 5]

localeCompare(a, b) ==
  IF CollationRank[a] < CollationRank[b] THEN 0 - 1
  ELSE IF CollationRank[a] > CollationRank[b] THEN 1
  ELSE 0

\* Variant: results are compared by depth alone.
compareDepthOnly(a, b) == a.depth - b.depth

\* The comparator of generateTSV: a.depth - b.depth || a.url.localeCompare(b.url).
compareResults(a, b) ==
  IF a.depth - b.depth # 0 THEN a.depth - b.depth ELSE localeCompare(a.url, b.url)

\* x put behind the last element of a sorted sequence that does not come after it.
InsertSorted(sorted, x) ==
  LET n == Cardinality({i \in 1..Len(sorted) : compareResults(sorted[i], x) <= 0})
  IN  SubSeq(sorted, 1, n) \o <<x>> \o SubSeq(sorted, n + 1, Len(sorted))

\* Array.prototype.sort with the comparator of generateTSV (stable).
RECURSIVE SortResults(_)
SortResults(rs) ==
  IF rs = <<>> THEN <<>> ELSE InsertSorted(SortResults(SubSeq(rs, 1, Len(rs) - 1)), rs[Len(rs)])

\* Number.prototype.toFixed(6) of num/den: the millionths, rounded to nearest.
toFixed6(ratio) == (2 * 1000000 * ratio.num + ratio.den) \div (2 * ratio.den)

\* One row of the TSV: url, depth and the ratio with six decimals.
TsvRow(result) == [url |-> result.url, depth |-> result.depth, ratio |-> toFixed6(result.ratio)]

\* generateTSV: the header line and the rows of the sorted array.
generateTSV(rs) ==
  LET sorted == SortResults(rs)
  IN  [header |-> "Url\tdepth\tratio", rows |-> [k \in 1..Len(sorted) |-> TsvRow(sorted[k])]]

TsvRecords ==
  [url : {R, A, B}, depth : 0..1, ratio : {[num |-> 1, den |-> 3], [num |-> 2, den |-> 3]}]

InitTsv ==
  /\ site = [h \in Hrefs |-> Null]
  /\ rootUrl = R
  /\ maxDepth = 1
  /\ maxWorkers = 1
  /\ visited = {}
  /\ results \in UNION {[1..n -> TsvRecords] : n \in 0..MaxRows}
  /\ currentUrls = <<>>
  /\ round = 0
  /\ workers = <<>>
  /\ pc = "call"
  /\ NoSingle /\ NoUrlCall
  /\ args = [results |-> results]
  /\ ret = <<>>

CallGenerateTSV ==
  /\ pc = "call"
  /\ results' = SortResults(results)
  /\ ret' = <<generateTSV(results)>>
  /\ pc' = "returned"
  /\ UNCHANGED <<site, rootUrl, maxDepth, maxWorkers, visited, currentUrls, round, workers,
                 singleVars, urlVars, args>>

NextTsv == CallGenerateTSV

SpecTsv == InitTsv /\ [][NextTsv]_vars

\* How often a row occurs in a sequence of rows.
RowCount(rows, r) == Cardinality({k \in 1..Len(rows) : rows[k] = r})

\* C24: generateTSV outputs exactly the records it was given, one row each
\* (the same multiset), ordered by ascending depth and, within one depth, by
\* ascending URL, whatever the order they were given in.
C24_SortedRows ==
  pc = "returned" =>
    LET rows == ret[1].rows
        given == [k \in 1..Len(args.results) |-> TsvRow(args.results[k])]
    IN  /\ Len(rows) = Len(given)
        /\ \A k \in 1..Len(given) : RowCount(rows, given[k]) = RowCount(given, given[k])
        /\ \A i, j \in 1..Len(rows) :
              i < j =>
                \/ rows[i].depth < rows[j].depth
                \/ /\ rows[i].depth = rows[j].depth
                   /\ CollationRank[rows[i].url] <= CollationRank[rows[j].url]

\* Three records given deepest first and, within the depth, in descending
\* URL order came out root first.
C24_Witness ==
  /\ pc = "returned"
  /\ Len(args.results) = 3
  /\ args.results[1].depth = 1 /\ args.results[1].url = B
  /\ args.results[2].depth = 1 /\ args.results[2].url = A
  /\ args.results[3].depth = 0 /\ args.results[3].url = R
  /\ ret[1].rows[1].url = R /\ ret[1].rows[2].url = A /\ ret[1].rows[3].url = B

(***************************************************************************)
(* The entry point: main() parses the command line, constructs one of the  *)
(* two crawlers, awaits its crawl() and writes the TSV.  args holds the    *)
(* command line (process.argv.slice(2)) and the machine's core count; ret  *)
(* holds what parseArgs returned (or the exit code) and later the TSV.     *)
(***************************************************************************)
Digit ==
  [c \in {"0", "1", "2", "3", "4", "5", "6", "7", "8", "9"} |->
     CASE c = "0" -> 0 [] c = "1" -> 1 [] c = "2" -> 2 [] c = "3" -> 3 [] c = "4" -> 4
       [] c = "5" -> 5 [] c = "6" -> 6 [] c = "7" -> 7 [] c = "8" -> 8 [] c = "9" -> 9]

\* The number of decimal digits of str from position i on.
RECURSIVE DigitCount(_, _)
DigitCount(str, i) ==
  IF i <= Len(str) /\ SubSeq(str, i, i) \in DOMAIN Digit THEN 1 + DigitCount(str, i + 1) ELSE 0

\* The value of the n decimal digits of str from position i on.
RECURSIVE DigitsValue(_, _, _)
DigitsValue(str, i, n) ==
  IF n = 0 THEN 0 ELSE 10 * DigitsValue(str, i, n - 1) + Digit[SubSeq(str, i + n - 1, i + n - 1)]

NaN == [nan |-> TRUE, value |-> 0]

\* parseInt(str, 10): an optional sign and the longest prefix of digits; NaN
\* when there is no digit.
parseInt(str) ==
  LET neg == Len(str) >= 1 /\ SubSeq(str, 1, 1) = "-"
      start == IF Len(str) >= 1 /\ SubSeq(str, 1, 1) \in {"-", "+"} THEN 2 ELSE 1
      n == DigitCount(str, start)
  IN  IF n = 0
      THEN NaN
      ELSE [nan |-> FALSE,
            value |-> IF neg THEN 0 - DigitsValue(str, start, n) ELSE DigitsValue(str, start, n)]

Exit(code) == [exit |-> code]

\* Variant: the worker count is not compared with the core count.
parseArgsNoCoreLimit(argv, cpuCores) ==
  IF Len(argv) < 2 \/ Len(argv) > 3
  THEN Exit(1)
  ELSE LET depth == parseInt(argv[2])
           given == Len(argv) = 3 /\ argv[3] # ""
           count == IF given THEN parseInt(argv[3]) ELSE NaN
       IN  IF depth.nan \/ depth.value < 0 THEN Exit(1)
           ELSE IF given /\ (count.nan \/ count.value < 1) THEN Exit(1)
           ELSE IF ~isValidUrl(argv[1]) THEN Exit(1)
           ELSE [exit |-> 0, rootUrl |-> argv[1], maxDepth |-> depth.value,
                 maxWorkers |-> IF given THEN count.value ELSE 0]

\* parseArgs: process.exit(1) or the CLIArgs; maxWorkers 0 is undefined.
parseArgs(argv, cpuCores) ==
  IF Len(argv) < 2 \/ Len(argv) > 3
  THEN Exit(1)
  ELSE LET depth == parseInt(argv[2])
           given == Len(argv) = 3 /\ argv[3] # ""
           count == IF given THEN parseInt(argv[3]) ELSE NaN
       IN  IF depth.nan \/ depth.value < 0 THEN Exit(1)
           ELSE IF given /\ (count.nan \/ count.value < 1) THEN Exit(1)
           ELSE IF given /\ count.value > cpuCores THEN Exit(1)
           ELSE IF ~isValidUrl(argv[1]) THEN Exit(1)
           ELSE [exit |-> 0, rootUrl |-> argv[1], maxDepth |-> depth.value,
                 maxWorkers |-> IF given THEN count.value ELSE 0]

\* Variant: the parallel crawler is used on every multi-core machine.
useParallelOnCores(cpuCores, optMaxWorkers) == cpuCores > 1

\* main: getCpuCoreCount() > 1 && (maxWorkers === undefined || maxWorkers > 1).
useParallel(cpuCores, optMaxWorkers) == cpuCores > 1 /\ (optMaxWorkers = 0 \/ optMaxWorkers > 1)

MainBatchSize == 10

RootArgs == {"http://s", R, NotAUrl}
DepthArgs == {"0", "1", "2abc", "-1", "abc"}
WorkerArgs == {"", "0", "1", "2", "3", "-1", "x"}

Argvs ==
  {<<u>> : u \in RootArgs}
    \cup {<<u, d>> : u \in RootArgs, d \in DepthArgs}
    \cup {<<u, d, w>> : u \in RootArgs, d \in DepthArgs, w \in WorkerArgs}
    \cup {<<u, "1", "1", "1">> : u \in RootArgs}

\* The sites main is run against: one whose root cannot be fetched, one with
\* a few pages.
MainSites ==
  {s \in Sites :
     \/ s[R] = Null /\ s[A] = Null /\ s[B] = Null /\ s[C] = Null
     \/ /\ s[R] = [ok |-> TRUE, links |-> <<A, B>>]
        /\ s[A] = [ok |-> TRUE, links |-> <<R, C>>]
        /\ s[B] = Null
        /\ s[C] = [ok |-> TRUE, links |-> <<>>]}

InitMain ==
  /\ site \in MainSites
  /\ rootUrl = ""
  /\ maxDepth = 0
  /\ maxWorkers = 0
  /\ visited = {}
  /\ results = <<>>
  /\ currentUrls = <<>>
  /\ round = 0
  /\ workers = <<>>
  /\ pc = "main"
  /\ NoSingle /\ NoUrlCall
  /\ args \in [argv : Argvs, cpuCores : 1..(MaxCores + 1)]
  /\ ret = <<>>

\* main calls parseArgs.
MainParse ==
  /\ pc = "main"
  /\ ret' = <<parseArgs(args.argv, args.cpuCores)>>
  /\ pc' = IF ret'[1].exit = 0 THEN "parsed" ELSE "exited"
  /\ UNCHANGED <<crawlVars, singleVars, urlVars, args>>

\* main constructs the crawler it chose.
MainConstruct ==
  /\ pc = "parsed"
  /\ rootUrl' = ret[1].rootUrl
  /\ maxDepth' = ret[1].maxDepth
  /\ IF useParallel(args.cpuCores, ret[1].maxWorkers)
     THEN /\ maxWorkers' = getOptimalWorkerCount(ret[1].maxWorkers, args.cpuCores)
          /\ batchSize' = batchSize
          /\ pc' = "idle"
     ELSE /\ batchSize' = BatchSizeOf(MainBatchSize)
          /\ maxWorkers' = maxWorkers
          /\ pc' = "single_idle"
  /\ UNCHANGED <<site, visited, results, currentUrls, round, workers, queue, batch,
                 urlVars, callVars>>

\* crawl() has returned: saveToTSV sorts the results in place and writes the
\* file; a failure to write ends in main's catch with exit code 1.
MainOutput ==
  /\ pc = "done"
  /\ results' = SortResults(results)
  /\ \E written \in BOOLEAN :
        IF written
        THEN /\ ret' = Append(ret, generateTSV(results))
             /\ pc' = "finished"
        ELSE /\ ret' = Append(ret, Exit(1))
             /\ pc' = "exited"
  /\ UNCHANGED <<site, rootUrl, maxDepth, maxWorkers, visited, currentUrls, round, workers,
                 singleVars, urlVars, args>>

NextMain == MainParse \/ MainConstruct \/ Next \/ NextSingle \/ MainOutput

SpecMain == InitMain /\ [][NextMain]_vars

\* The third argument is present and not empty.
WorkersGiven == Len(args.argv) = 3 /\ args.argv[3] # ""

\* One of the configuration failures: the root is no absolute URL, max_depth
\* is negative or no number, max_workers is below 1, no number or above the
\* core count.
BadConfiguration ==
  \/ args.argv[1] \notin DOMAIN UrlTable
  \/ args.argv[2] \in {"-1", "abc"}
  \/ WorkersGiven /\ args.argv[3] \in {"0", "-1", "x"}
  \/ WorkersGiven /\ args.argv[3] = "2" /\ args.cpuCores < 2
  \/ WorkersGiven /\ args.argv[3] = "3" /\ args.cpuCores < 3

\* No crawler was constructed and no page fetched.
NothingStarted ==
  /\ rootUrl = "" /\ batchSize = 0 /\ maxWorkers = 0
  /\ visited = {} /\ results = <<>> /\ workers = <<>> /\ queue = <<>> /\ batch = <<>>

SingleThreaded == batchSize # 0

\* C22: main runs the single-threaded WebCrawler exactly when max_workers is
\* 1 or the machine has one CPU core, and the ParallelWebCrawler otherwise.
C22_CrawlerChoice ==
  (pc \in {"idle", "single_idle", "await", "single_await", "done", "finished"} \/ Len(ret) = 2) =>
    /\ SingleThreaded <=> ((Len(args.argv) = 3 /\ args.argv[3] = "1") \/ args.cpuCores = 1)
    /\ SingleThreaded => (workers = <<>> /\ currentUrls = <<>> /\ pc \notin {"idle", "await"})
    /\ ~SingleThreaded =>
          (queue = <<>> /\ batch = <<>> /\ pc \notin {"single_idle", "single_await"}
           /\ maxWorkers >= 1)

\* On a multi-core machine main was given max_workers = 1 and the
\* single-threaded crawler recorded several pages.
C22_Witness ==
  /\ pc = "finished"
  /\ SingleThreaded
  /\ args.cpuCores >= 2
  /\ args.argv[3] = "1"
  /\ Len(results) >= 2

(***************************************************************************)
(* Properties of the single-threaded crawler.                              *)
(***************************************************************************)
\* The entries of the batch whose fetch is in flight.
InFlight == {k \in 1..Len(batch) : batch[k].pending}

\* A step that issues a fetch.
FetchIssued ==
  \E k \in 1..Len(batch') : batch'[k].pending /\ (k > Len(batch) \/ ~batch[k].pending)

\* C28: in the single-threaded WebCrawler at most batchSize page fetches (10
\* by default) are in flight at any time, and no entry of the next batch is
\* fetched before every fetch of the current batch has returned.
C28_BatchBound ==
  /\ [](Cardinality(InFlight) <= batchSize /\ Len(batch) <= batchSize)
  /\ [][FetchIssued => InFlight = {}]_vars

\* Two fetches of a batch of two are in flight while further entries wait in
\* the queue.
C28_Witness ==
  /\ pc = "single_await"
  /\ batchSize = 2
  /\ Cardinality(InFlight) = 2
  /\ Len(queue) >= 1
  /\ Len(results) >= 1

(***************************************************************************)
(* Both crawlers on the same site with the same rootUrl and maxDepth, any  *)
(* maxDepth from -1 on: a WebCrawler is constructed and its crawl() runs   *)
(* to its end, then a ParallelWebCrawler is constructed and its crawl()    *)
(* runs.  ret holds what WebCrawler.crawl() returned.                      *)
(***************************************************************************)
InitBoth ==
  /\ site \in Sites
  /\ rootUrl \in RootUrls
  /\ maxDepth \in (0 - 1)..MaxDepthBound
  /\ maxWorkers = 1
  /\ visited = {}
  /\ results = <<>>
  /\ currentUrls = <<>>
  /\ pc = "single_idle"
  /\ round = 0
  /\ workers = <<>>
  /\ \E b \in 0..MaxBatch : batchSize = BatchSizeOf(b)
  /\ queue = <<>>
  /\ batch = <<>>
  /\ NoUrlCall /\ NoCall

\* WebCrawler.crawl() has returned; new ParallelWebCrawler(options) with the
\* same rootUrl and maxDepth.
ConstructParallel ==
  /\ pc = "done"
  /\ ret = <<>>
  /\ ret' = <<results>>
  /\ visited' = {}
  /\ results' = <<>>
  /\ maxWorkers' \in WorkerCounts
  /\ batchSize' = 0
  /\ pc' = "idle"
  /\ UNCHANGED <<site, rootUrl, maxDepth, currentUrls, round, workers, queue, batch, urlVars, args>>

NextBoth == NextSingle \/ ConstructParallel \/ Next

SpecBoth == InitBoth /\ [][NextBoth]_vars

\* No executor crashed and no task ended with an error.
NoTaskFailed ==
  \A i \in 1..Len(workers) : workers[i].promise = "resolved" /\ ~workers[i].result.error

\* No URL occurs twice in a sequence of PageResults.
UrlsOnce(rs) == \A i, j \in 1..Len(rs) : rs[i].url = rs[j].url => i = j

\* C27: for the same site, rootUrl and maxDepth, any batchSize >= 1 and any
\* worker count, and no executor failure, WebCrawler.crawl() and
\* ParallelWebCrawler.crawl() return the same set of (url, depth, ratio)
\* records, each URL at most once.
C27_SameRecords ==
  (pc = "done" /\ Len(ret) = 1 /\ NoTaskFailed) =>
    /\ Range(results) = Range(ret[1])
    /\ UrlsOnce(results)
    /\ UrlsOnce(ret[1])

\* Both crawls ended, the parallel one after three rounds on two workers and
\* the single-threaded one in batches of one, with pages of depth 2.
C27_Witness ==
  /\ pc = "done" /\ Len(ret) = 1 /\ NoTaskFailed
  /\ round = 3
  /\ maxWorkers = 2
  /\ Len(ret[1]) >= 3
  /\ \E k \in 1..Len(ret[1]) : ret[1][k].depth = 2
  /\ \E k \in 1..(Len(ret[1]) - 1) : ret[1][k].url # results[k].url

\* C29: no page fetch is issued for an entry whose depth exceeds maxDepth:
\* the executor and the single-threaded loop skip it before fetching and
\* record no PageResult and no link for it; with a negative maxDepth nothing
\* is fetched and the result is empty.
C29_NoFetchBeyondDepth ==
  /\ \A i \in 1..Len(workers) :
        /\ \A n \in workers[i].fetched : workers[i].task.urls[n].depth <= maxDepth
        /\ \A k \in 1..Len(workers[i].result.results) :
              workers[i].result.results[k].depth <= maxDepth
        /\ \A k \in 1..Len(workers[i].result.newUrls) :
              workers[i].result.newUrls[k].depth <= maxDepth
  /\ \A k \in 1..Len(batch) : batch[k].fetch => batch[k].depth <= maxDepth
  /\ \A k \in 1..Len(queue) : queue[k].depth <= maxDepth
  /\ \A k \in 1..Len(results) : results[k].depth <= maxDepth
  /\ maxDepth < 0 =>
        /\ results = <<>>
        /\ \A i \in 1..Len(workers) : workers[i].fetched = {}
        /\ \A k \in 1..Len(batch) : ~batch[k].fetch
        /\ Len(ret) = 1 => ret[1] = <<>>

\* With maxDepth -1 and a root page that can be fetched both crawls ended:
\* the worker given the root returned without fetching it.
C29_Witness ==
  /\ maxDepth < 0
  /\ fetchPage(site, rootUrl).ok
  /\ Len(fetchPage(site, rootUrl).links) > 0
  /\ pc = "done" /\ Len(ret) = 1
  /\ Len(workers) = 1 /\ workers[1].promise = "resolved"
  /\ workers[1].task.urls = <<[url |-> rootUrl, depth |-> 0]>>

(***************************************************************************)
(* crawl() called again on the same instance.  The instance keeps visited  *)
(* and results between calls; currentUrls (or the queue) is a local of     *)
(* each call.  ret holds what the earlier calls returned.                  *)
(***************************************************************************)
MaxCalls == 2

InitAgain == Init \/ InitSingle

\* ParallelWebCrawler.crawl() is called on an instance whose crawl() has
\* returned.
CrawlAgain ==
  /\ pc = "done"
  /\ batchSize = 0
  /\ Len(ret) < MaxCalls - 1
  /\ ret' = Append(ret, results)
  /\ currentUrls' = <<[url |-> rootUrl, depth |-> 0]>>
  /\ visited' = visited \cup {rootUrl}
  /\ LoopIteration(currentUrls')
  /\ UNCHANGED <<singleVars, urlVars, args, site, rootUrl, maxDepth, maxWorkers, results>>

\* WebCrawler.crawl() is called on an instance whose crawl() has returned.
SingleCrawlAgain ==
  /\ pc = "done"
  /\ batchSize # 0
  /\ Len(ret) < MaxCalls - 1
  /\ ret' = Append(ret, results)
  /\ SingleLoop(<<[url |-> rootUrl, depth |-> 0]>>, visited)
  /\ UNCHANGED <<batchSize, urlVars, args, site, rootUrl, maxDepth, maxWorkers, results,
                 currentUrls, round, workers>>

NextAgain == Next \/ NextSingle \/ CrawlAgain \/ SingleCrawlAgain

SpecAgain == InitAgain /\ [][NextAgain]_vars

\* No executor has crashed or exited and no task has ended with an error so far.
NoTaskFailedYet ==
  \A i \in 1..Len(workers) :
     /\ workers[i].promise # "rejected"
     /\ workers[i].thread # "exited"
     /\ ~workers[i].result.error

\* The URLs within d links of rootUrl: chains of links that are same-domain
\* with the root, through pages whose fetch succeeds.
RECURSIVE Within(_)
Within(d) ==
  IF d <= 0
  THEN IF d = 0 THEN {rootUrl} ELSE {}
  ELSE LET prev == Within(d - 1)
       IN  prev \cup {l \in Hrefs :
                        \E p \in prev :
                           /\ fetchPage(site, p).ok
                           /\ l \in Range(fetchPage(site, p).links)
                           /\ isSameDomain(l, rootUrl, rootUrl)}

\* The breadth-first distance of a URL from rootUrl.
Distance(u) ==
  CHOOSE d \in 0..(MaxDepthBound + 2) : u \in Within(d) /\ (d > 0 => u \notin Within(d - 1))

\* C31: when no task fails the depth recorded for a URL is its breadth-first
\* distance from the root (shortest chain of same-domain links through
\* successfully fetched pages); no URL is recorded at a greater depth.
C31_DepthIsDistance ==
  NoTaskFailedYet =>
    /\ \A k \in 1..Len(results) :
          /\ results[k].url \in Within(results[k].depth)
          /\ results[k].depth = Distance(results[k].url)
    /\ Len(ret) = 1 =>
          \A k \in 1..Len(ret[1]) : ret[1][k].depth = Distance(ret[1][k].url)

\* Both crawls ended without a failure; a page recorded at depth 1 is also
\* linked from another page of depth 1, and a page was recorded at depth 2.
C31_Witness ==
  /\ pc = "done" /\ Len(ret) = 1 /\ NoTaskFailedYet
  /\ \E j, k \in 1..Len(results) :
        /\ j # k
        /\ results[j].depth = 1 /\ results[k].depth = 1
        /\ results[k].url \in Range(fetchPage(site, results[j].url).links)
  /\ \E k \in 1..Len(results) : results[k].depth = 2
  /\ \E k \in 1..Len(ret[1]) : ret[1][k].depth = 2

\* Every URL within maxDepth links of the root whose own fetch succeeds has
\* a PageResult in rs.
Complete(rs) ==
  \A u \in Within(maxDepth) :
     fetchPage(site, u).ok => \E k \in 1..Len(rs) : rs[k].url = u

\* C32: when no task fails every URL reachable from the root by at most
\* maxDepth same-domain links through successfully fetched pages, and whose
\* own fetch succeeds, eventually has a PageResult in the accumulator that
\* crawl() returns.
C32_Complete ==
  (pc = "done" /\ NoTaskFailedYet) =>
    /\ Complete(results)
    /\ Len(ret) = 1 => Complete(ret[1])

\* The crawl ended without a failure and recorded three pages; one of them
\* lies at depth 2 and some link of the site was left out as off-domain.
C32_Witness ==
  /\ pc = "done" /\ NoTaskFailedYet /\ Len(ret) = 1
  /\ maxDepth = 2
  /\ Cardinality(Within(2)) >= 3
  /\ Len(results) >= 3
  /\ \E k \in 1..Len(results) : results[k].depth = 2
  /\ \E k \in 1..Len(results) : X \in Range(fetchPage(site, results[k].url).links)

\* The entry names the root page: its URL and rootUrl have the same href.
IsRootPage(url) == isValidUrl(url) /\ UrlTable[url].href = UrlTable[rootUrl].href

\* C33: the root page is fetched and recorded at most once per crawl, also
\* when a crawled page links back to it: the seed string rootUrl and the
\* normalized href of a link to the root count as the same URL.
C33_RootFetchedOnce ==
  /\ \A i, j \in 1..Len(workers) :
        \A n \in workers[i].fetched, m \in workers[j].fetched :
           (IsRootPage(workers[i].task.urls[n].url) /\ IsRootPage(workers[j].task.urls[m].url))
             => (i = j /\ n = m)
  /\ \A k, l \in 1..Len(results) :
        (IsRootPage(results[k].url) /\ IsRootPage(results[l].url)) => k = l

\* C34: a second crawl() on the same instance fetches no page again and
\* leaves the accumulator as the first call returned it; no URL occurs twice
\* in the results.
C34_SecondCrawlAddsNothing ==
  (Len(ret) >= 1 /\ NoTaskFailed) =>
    /\ results = ret[Len(ret)]
    /\ UrlsOnce(results)
    /\ \A i, j \in 1..Len(workers) :
          \A n \in workers[i].fetched, m \in workers[j].fetched :
             workers[i].task.urls[n].url = workers[j].task.urls[m].url => i = j /\ n = m
    /\ \A k \in 1..Len(batch) : ~batch[k].fetch

(***************************************************************************)
(* WebCrawler with any integer batchSize option.  options.batchSize || 10  *)
(* replaces 0 only; queue.splice(0, batchSize) takes no entry for a        *)
(* negative count.  The event loop runs every callback that is ready, so   *)
(* each step of crawl() is taken once it can be.                           *)
(***************************************************************************)
InitSingleAny ==
  /\ site \in Sites
  /\ rootUrl \in RootUrls
  /\ maxDepth \in 0..MaxDepthBound
  /\ maxWorkers = 1
  /\ visited = {}
  /\ results = <<>>
  /\ currentUrls = <<>>
  /\ pc = "single_idle"
  /\ round = 0
  /\ workers = <<>>
  /\ \E b \in (0 - 1)..MaxBatch : batchSize = BatchSizeOf(b)
  /\ queue = <<>>
  /\ batch = <<>>
  /\ NoUrlCall /\ NoCall

FairSpecSingleAny ==
  /\ InitSingleAny
  /\ [][NextSingle]_vars
  /\ WF_vars(SingleCrawl)
  /\ WF_vars(SingleFetchStep)
  /\ WF_vars(SingleBatch)

\* C35: WebCrawler.crawl() terminates on every site for every integer
\* batchSize option, 0 and negative values included.
C35_SingleCrawlTerminates == <>(pc = "done")

\* C36: when crawl() of the ParallelWebCrawler resolves no executor it
\* spawned is still running: every worker of every round has delivered its
\* outcome or been terminated, also in a round left after a crash.
C36_NoExecutorRunning ==
  pc = "done" => \A i \in 1..Len(workers) : workers[i].thread # "running"

\* C37: generateTSV and saveToTSV leave the sequence they are given
\* unchanged: after the output is produced the array still holds the
\* PageResults in the order in which they were given.
C37_InputUnchanged ==
  pc = "returned" => results = args.results

====
